---- MODULE Spec2Model ----
(***************************************************************************)
(* Model of floem's input-event core: src/event.rs and src/dropped_file.rs *)
(*                                                                         *)
(* An Event value is received, geometrically adjusted zero or more times   *)
(* with Event::transform / Event::offset while it descends nested views,   *)
(* queried with listener / needs_focus / allow_disabled / point, and the   *)
(* handler that finally sees it returns an EventPropagation.               *)
(*                                                                         *)
(* Representation.  Every Event is a record                                *)
(*    [variant, kind, position, data]                                      *)
(* variant  : the variant of `enum Event`                                  *)
(* kind     : the sub-variant (PointerEvent kind, FileDragEvent kind,      *)
(*            KeyState of a Key event), "-" when there is none             *)
(* position : the Option<Point> that point()/transform() match on;        *)
(*            None (<<>>) when the variant has no such field               *)
(* data     : every other payload field, never a target of transform       *)
(* Option<T> is a sequence of length at most one.  A Point is <<x, y>>.    *)
(* An Affine is its coefficient array <<a, b, c, d, e, f>>.                *)
(* Coordinates are small integers, which f64 represents exactly.           *)
(***************************************************************************)
EXTENDS Integers, Sequences, FiniteSets

VARIABLES event, orig, prev, op, depth, propagation

vars == <<event, orig, prev, op, depth, propagation>>

\* Longest chain of transform/offset calls applied to one event.
MaxDepth == 3

None == <<>>

Some(v) == <<v>>

----------------------------------------------------------------------------
(* enum EventPropagation and its predicates *)

EventPropagation == {"Stop", "Continue"}

is_continue(self) == self = "Continue"

is_stop(self) == self = "Stop"

\* Slip: "processed" tested against the wrong variant.
is_processed_continue(self) == self = "Continue"

is_processed(self) == self = "Stop"

----------------------------------------------------------------------------
(* enum EventListener *)

EventListener ==
    {"KeyDown", "KeyUp", "Click", "DoubleClick", "SecondaryClick",
     "DragStart", "DragEnd", "DragOver", "DragEnter", "DragLeave", "Drop",
     "PointerDown", "PointerMove", "PointerUp", "PointerEnter",
     "PointerLeave", "PinchGesture", "ImeEnabled", "ImeDisabled",
     "ImePreedit", "ImeCommit", "PointerWheel", "FocusGained", "FocusLost",
     "ThemeChanged", "WindowClosed", "WindowResized", "WindowMoved",
     "WindowGotFocus", "WindowLostFocus", "WindowMaximizeChanged",
     "WindowScaleChanged", "DroppedFile"}

----------------------------------------------------------------------------
(* The events the platform layer can construct *)

Positions == {<<0, 0>>, <<10, 10>>, <<-3, 4>>}

Paths == {<<"a.txt">>}

Ev(v, k, p, d) == [variant |-> v, kind |-> k, position |-> p, data |-> d]

\* PointerEvent::{Down, Up, Scroll} carry a PointerState (with a position),
\* Move carries a PointerUpdate whose `current` state has the position and
\* whose coalesced states are further payload; Enter, Leave and Cancel
\* carry only a PointerInfo, which has no position.
PointerEvent ==
    {Ev("Pointer", k, Some(p), "state") : k \in {"Down", "Up", "Scroll"}, p \in Positions}
    \cup {Ev("Pointer", "Move", Some(p), <<"coalesced", <<1, 1>>>>) : p \in Positions}
    \cup {Ev("Pointer", k, None, "info") : k \in {"Enter", "Leave", "Cancel"}}

FileDragEvent ==
    {Ev("FileDrag", k, Some(p), paths) :
        k \in {"DragEntered", "DragDropped"}, p \in Positions, paths \in Paths}
    \cup {Ev("FileDrag", "DragMoved", Some(p), <<>>) : p \in Positions}
    \cup {Ev("FileDrag", "DragLeft", Some(p), <<>>) : p \in Positions}
    \cup {Ev("FileDrag", "DragLeft", None, <<>>)}

KeyboardEvent ==
    {Ev("Key", s, None, code) : s \in {"Down", "Up"}, code \in {"Enter", "KeyQ"}}

Event ==
    PointerEvent \cup FileDragEvent \cup KeyboardEvent
    \cup {Ev("ImeEnabled", "-", None, <<>>),
          Ev("ImeDisabled", "-", None, <<>>),
          Ev("ImePreedit", "-", None, <<"ni", Some(<<0, 2>>)>>),
          Ev("ImePreedit", "-", None, <<"", None>>),
          Ev("ImeCommit", "-", None, "ni"),
          Ev("WindowGotFocus", "-", None, <<>>),
          Ev("WindowLostFocus", "-", None, <<>>),
          Ev("WindowClosed", "-", None, <<>>),
          Ev("WindowResized", "-", None, <<800, 600>>),
          Ev("WindowMoved", "-", None, <<10, 10>>),
          Ev("WindowMaximizeChanged", "-", None, TRUE),
          Ev("ThemeChanged", "-", None, "Dark"),
          Ev("FocusGained", "-", None, <<>>),
          Ev("FocusLost", "-", None, <<>>),
          Ev("WindowScaleChanged", "-", None, 2)}

----------------------------------------------------------------------------
(* kurbo::Affine, as far as event.rs uses it *)

\* Affine::translate(p) = Affine([1, 0, 0, 1, p.x, p.y])
translate(p) == <<1, 0, 0, 1, p[1], p[2]>>

determinant(t) == t[1] * t[4] - t[2] * t[3]

\* f64::recip, on the determinants that occur here (1 and -1)
recip(x) == CHOOSE r \in {-1, 1} : r * x = 1

\* Affine::inverse: the adjugate scaled by 1/determinant
inverse(t) ==
    LET inv_det == recip(determinant(t))
    IN  <<inv_det * t[4],
          (-inv_det) * t[2],
          (-inv_det) * t[3],
          inv_det * t[1],
          inv_det * (t[3] * t[6] - t[4] * t[5]),
          inv_det * (t[2] * t[5] - t[1] * t[6])>>

\* impl Mul<Point> for Affine
MulPoint(t, p) ==
    <<t[1] * p[1] + t[3] * p[2] + t[5],
      t[2] * p[1] + t[4] * p[2] + t[6]>>

\* Invertible placement transforms a view can supply: identity, quarter
\* turn, mirror with translation, shears with translation, a general
\* unimodular map.
Affines ==
    {<<1, 0, 0, 1, 0, 0>>,
     <<0, 1, -1, 0, 0, 0>>,
     <<-1, 0, 0, 1, 2, 0>>,
     <<1, 0, 1, 1, 0, -1>>,
     <<1, 1, 0, 1, 3, 2>>,
     <<2, 1, 1, 1, 1, 0>>}

Offsets == {<<5, 0>>, <<-1, 2>>, <<0, 0>>}

----------------------------------------------------------------------------
(* impl Event *)

\* Slip: committed IME text treated as keyboard input.
needs_focus_ime(self) ==
    IF self.variant \in {"Key", "ImeCommit"} THEN TRUE ELSE FALSE

needs_focus(self) ==
    IF self.variant = "Key" THEN TRUE ELSE FALSE

\* Slip: the first arm admits every pointer event.
allow_disabled_any_pointer(self) ==
    CASE self.variant = "Pointer" -> TRUE
      [] self.variant \in {"ThemeChanged", "WindowClosed", "WindowResized",
                           "WindowMoved", "WindowGotFocus",
                           "WindowMaximizeChanged", "WindowScaleChanged",
                           "WindowLostFocus"} -> TRUE
      [] self.variant = "FileDrag" /\ self.kind = "DragDropped" -> TRUE
      [] OTHER -> FALSE

allow_disabled(self) ==
    CASE self.variant = "Pointer" /\ self.kind \in {"Leave", "Move"} -> TRUE
      [] self.variant \in {"ThemeChanged", "WindowClosed", "WindowResized",
                           "WindowMoved", "WindowGotFocus",
                           "WindowMaximizeChanged", "WindowScaleChanged",
                           "WindowLostFocus"} -> TRUE
      [] self.variant = "FileDrag" /\ self.kind = "DragDropped" -> TRUE
      [] self.variant = "Pointer" /\ self.kind \notin {"Leave", "Move"} -> FALSE
      [] self.variant \in {"FocusGained", "FocusLost", "ImeEnabled",
                           "ImeDisabled", "ImePreedit", "ImeCommit"} -> FALSE
      [] self.variant = "FileDrag"
           /\ self.kind \in {"DragEntered", "DragMoved", "DragLeft"} -> FALSE
      [] self.variant = "Key" -> FALSE

\* The two arms of point() and transform() that bind a position.
HasState(self) ==
    self.variant = "Pointer" /\ self.kind \in {"Down", "Up", "Move", "Scroll"}

HasDragPosition(self) ==
    /\ self.variant = "FileDrag"
    /\ \/ self.kind \in {"DragEntered", "DragMoved", "DragDropped"}
       \/ self.kind = "DragLeft" /\ self.position # None

\* Slip: the DragLeft { position: Some(_) } arm is missing.
point_no_drag_left(self) ==
    IF HasState(self) THEN Some(self.position[1])
    ELSE IF HasDragPosition(self) /\ self.kind # "DragLeft" THEN Some(self.position[1])
    ELSE None

point(self) ==
    IF HasState(self) THEN Some(self.position[1])
    ELSE IF HasDragPosition(self) THEN Some(self.position[1])
    ELSE None

\* Slip: the transform is applied as given, not inverted.
transform_forward(self, t) ==
    IF HasState(self)
      THEN [self EXCEPT !.position = Some(MulPoint(t, self.position[1]))]
    ELSE IF HasDragPosition(self)
      THEN [self EXCEPT !.position = Some(MulPoint(t, self.position[1]))]
    ELSE self

\* Slip: the Point carried by WindowMoved is adjusted as well.
transform_window_moved(self, t) ==
    IF HasState(self)
      THEN [self EXCEPT !.position = Some(MulPoint(inverse(t), self.position[1]))]
    ELSE IF HasDragPosition(self)
      THEN [self EXCEPT !.position = Some(MulPoint(inverse(t), self.position[1]))]
    ELSE IF self.variant = "WindowMoved"
      THEN [self EXCEPT !.data = MulPoint(inverse(t), self.data)]
    ELSE self

\* Slip: a DragLeft position is cleared instead of adjusted.
transform_clears_drag_left(self, t) ==
    IF HasState(self)
      THEN [self EXCEPT !.position = Some(MulPoint(inverse(t), self.position[1]))]
    ELSE IF HasDragPosition(self) /\ self.kind = "DragLeft"
      THEN [self EXCEPT !.position = None]
    ELSE IF HasDragPosition(self)
      THEN [self EXCEPT !.position = Some(MulPoint(inverse(t), self.position[1]))]
    ELSE self

transform(self, t) ==
    IF HasState(self)
      THEN [self EXCEPT !.position = Some(MulPoint(inverse(t), self.position[1]))]
    ELSE IF HasDragPosition(self)
      THEN [self EXCEPT !.position = Some(MulPoint(inverse(t), self.position[1]))]
    ELSE self

\* Slip: the offset is added to the position instead of subtracted.
offset_added(self, o) == transform(self, translate(<<-o[1], -o[2]>>))

offset(self, o) == transform(self, translate(o))

\* The arms of listener() other than the pointer and key arms.
listener_rest(self) ==
    CASE self.variant = "FileDrag" -> Some("DroppedFile")
      [] OTHER -> Some(self.variant)

\* Slip: scroll events are reported as pointer moves.
listener_scroll_as_move(self) ==
    CASE self.variant = "Pointer" /\ self.kind = "Down" -> Some("PointerDown")
      [] self.variant = "Pointer" /\ self.kind = "Up" -> Some("PointerUp")
      [] self.variant = "Pointer" /\ self.kind \in {"Move", "Scroll"} -> Some("PointerMove")
      [] self.variant = "Pointer" /\ self.kind = "Leave" -> Some("PointerLeave")
      [] self.variant = "Pointer" /\ self.kind \in {"Enter", "Cancel"} -> None
      [] self.variant = "Key" /\ self.kind = "Down" -> Some("KeyDown")
      [] self.variant = "Key" /\ self.kind = "Up" -> Some("KeyUp")
      [] OTHER -> listener_rest(self)

\* Slip: pointer enter is wired to the PointerEnter listener.
listener_pointer_enter(self) ==
    CASE self.variant = "Pointer" /\ self.kind = "Down" -> Some("PointerDown")
      [] self.variant = "Pointer" /\ self.kind = "Up" -> Some("PointerUp")
      [] self.variant = "Pointer" /\ self.kind = "Move" -> Some("PointerMove")
      [] self.variant = "Pointer" /\ self.kind = "Scroll" -> Some("PointerWheel")
      [] self.variant = "Pointer" /\ self.kind = "Leave" -> Some("PointerLeave")
      [] self.variant = "Pointer" /\ self.kind = "Enter" -> Some("PointerEnter")
      [] self.variant = "Pointer" /\ self.kind = "Cancel" -> None
      [] self.variant = "Key" /\ self.kind = "Down" -> Some("KeyDown")
      [] self.variant = "Key" /\ self.kind = "Up" -> Some("KeyUp")
      [] OTHER -> listener_rest(self)

listener(self) ==
    CASE self.variant = "Pointer" /\ self.kind = "Down" -> Some("PointerDown")
      [] self.variant = "Pointer" /\ self.kind = "Up" -> Some("PointerUp")
      [] self.variant = "Pointer" /\ self.kind = "Move" -> Some("PointerMove")
      [] self.variant = "Pointer" /\ self.kind = "Scroll" -> Some("PointerWheel")
      [] self.variant = "Pointer" /\ self.kind = "Leave" -> Some("PointerLeave")
      [] self.variant = "Pointer" /\ self.kind = "Enter" -> None
      [] self.variant = "Pointer" /\ self.kind = "Cancel" -> None
      [] self.variant = "Key" /\ self.kind = "Down" -> Some("KeyDown")
      [] self.variant = "Key" /\ self.kind = "Up" -> Some("KeyUp")
      [] self.variant = "ImeEnabled" -> Some("ImeEnabled")
      [] self.variant = "ImeDisabled" -> Some("ImeDisabled")
      [] self.variant = "ImePreedit" -> Some("ImePreedit")
      [] self.variant = "ImeCommit" -> Some("ImeCommit")
      [] self.variant = "WindowClosed" -> Some("WindowClosed")
      [] self.variant = "WindowResized" -> Some("WindowResized")
      [] self.variant = "WindowMoved" -> Some("WindowMoved")
      [] self.variant = "WindowMaximizeChanged" -> Some("WindowMaximizeChanged")
      [] self.variant = "WindowScaleChanged" -> Some("WindowScaleChanged")
      [] self.variant = "WindowGotFocus" -> Some("WindowGotFocus")
      [] self.variant = "WindowLostFocus" -> Some("WindowLostFocus")
      [] self.variant = "FocusLost" -> Some("FocusLost")
      [] self.variant = "FocusGained" -> Some("FocusGained")
      [] self.variant = "ThemeChanged" -> Some("ThemeChanged")
      [] self.variant = "FileDrag" -> Some("DroppedFile")

----------------------------------------------------------------------------
(* State machine: one event in flight through nested views *)

Op(k, a) == [kind |-> k, arg |-> a]

Init ==
    /\ event \in Event
    /\ orig = event
    /\ prev = event
    /\ op = Op("receive", <<>>)
    /\ depth = 0
    /\ propagation = "Continue"

\* The platform layer hands over a fresh event.
Receive(e) ==
    /\ event' = e
    /\ orig' = e
    /\ prev' = e
    /\ op' = Op("receive", <<>>)
    /\ depth' = 0
    /\ UNCHANGED propagation

\* A view maps the event into its local frame with Event::transform.
Transform(t) ==
    /\ depth < MaxDepth
    /\ event' = transform(event, t)
    /\ prev' = event
    /\ op' = Op("transform", t)
    /\ depth' = depth + 1
    /\ UNCHANGED <<orig, propagation>>

\* A view maps the event into its local frame with Event::offset.
Offset(o) ==
    /\ depth < MaxDepth
    /\ event' = offset(event, o)
    /\ prev' = event
    /\ op' = Op("offset", o)
    /\ depth' = depth + 1
    /\ UNCHANGED <<orig, propagation>>

\* A handler returns its EventPropagation.
Handler(p) ==
    /\ propagation' = p
    /\ UNCHANGED <<event, orig, prev, op, depth>>

Next ==
    \/ \E e \in Event : Receive(e)
    \/ \E t \in Affines : Transform(t)
    \/ \E o \in Offsets : Offset(o)
    \/ \E p \in EventPropagation : Handler(p)

Spec == Init /\ [][Next]_vars

TypeOK ==
    /\ event.variant = orig.variant
    /\ depth \in 0..MaxDepth
    /\ propagation \in EventPropagation

----------------------------------------------------------------------------
(* Properties *)

IsTransformed == op.kind \in {"transform", "offset"}

Eponymous ==
    {"ImeEnabled", "ImeDisabled", "ImePreedit", "ImeCommit",
     "WindowGotFocus", "WindowLostFocus", "WindowClosed", "WindowResized",
     "WindowMoved", "WindowMaximizeChanged", "WindowScaleChanged",
     "ThemeChanged", "FocusGained", "FocusLost"}

\* C1: listener is total and maps every event to its documented category:
\* Pointer Down/Up/Move/Scroll/Leave to PointerDown/PointerUp/PointerMove/
\* PointerWheel/PointerLeave, Key Down/Up to KeyDown/KeyUp, every IME,
\* window, focus and theme variant to the listener of the same name, every
\* FileDrag variant to DroppedFile; None exactly for Pointer Enter and
\* Pointer Cancel.
C1_ListenerMapping ==
    /\ listener(event) \in {None} \cup {Some(l) : l \in EventListener}
    /\ event.variant = "Pointer" /\ event.kind = "Down"
         => listener(event) = Some("PointerDown")
    /\ event.variant = "Pointer" /\ event.kind = "Up"
         => listener(event) = Some("PointerUp")
    /\ event.variant = "Pointer" /\ event.kind = "Move"
         => listener(event) = Some("PointerMove")
    /\ event.variant = "Pointer" /\ event.kind = "Scroll"
         => listener(event) = Some("PointerWheel")
    /\ event.variant = "Pointer" /\ event.kind = "Leave"
         => listener(event) = Some("PointerLeave")
    /\ event.variant = "Key" /\ event.kind = "Down"
         => listener(event) = Some("KeyDown")
    /\ event.variant = "Key" /\ event.kind = "Up"
         => listener(event) = Some("KeyUp")
    /\ event.variant \in Eponymous => listener(event) = Some(event.variant)
    /\ event.variant = "FileDrag" => listener(event) = Some("DroppedFile")
    /\ listener(event) = None
         <=> event.variant = "Pointer" /\ event.kind \in {"Enter", "Cancel"}

C1_Witness ==
    /\ event.variant = "Pointer"
    /\ event.kind = "Scroll"
    /\ IsTransformed
    /\ listener(event) = Some("PointerWheel")

\* C2: allow_disabled is true exactly for Pointer Leave, Pointer Move,
\* ThemeChanged, WindowClosed, WindowResized, WindowMoved, WindowGotFocus,
\* WindowLostFocus, WindowMaximizeChanged, WindowScaleChanged and
\* FileDrag(DragDropped), and false for every other event.
C2_AllowDisabledPartition ==
    allow_disabled(event) =
        \/ event.variant = "Pointer" /\ event.kind \in {"Leave", "Move"}
        \/ event.variant \in {"ThemeChanged", "WindowClosed", "WindowResized",
                              "WindowMoved", "WindowGotFocus",
                              "WindowLostFocus", "WindowMaximizeChanged",
                              "WindowScaleChanged"}
        \/ event.variant = "FileDrag" /\ event.kind = "DragDropped"

C2_Witness ==
    /\ event.variant = "Pointer"
    /\ event.kind = "Up"
    /\ ~allow_disabled(event)

NoPositionVariants == Eponymous \cup {"Key"}

\* C3 as stated: point is Some(position) for every Pointer variant,
\* including Enter, Leave and Cancel, and for every FileDrag variant except
\* DragLeft without a position; None for every keyboard, IME, window, theme
\* and focus event.
C3_PointEveryPointer ==
    /\ event.variant = "Pointer" => point(event) # None
    /\ event.variant = "FileDrag" /\ ~(event.kind = "DragLeft" /\ event.position = None)
         => point(event) = Some(event.position[1])
    /\ event.variant \in NoPositionVariants => point(event) = None

\* C3 amended: point is Some(position) for Pointer Down, Up, Move and
\* Scroll and for every FileDrag variant except DragLeft without a
\* position; it is None for Pointer Enter, Leave and Cancel, for DragLeft
\* without a position and for every keyboard, IME, window, theme and focus
\* event.
C3_PointPositional ==
    /\ event.variant = "Pointer" /\ event.kind \in {"Down", "Up", "Move", "Scroll"}
         => point(event) = Some(event.position[1])
    /\ event.variant = "Pointer" /\ event.kind \in {"Enter", "Leave", "Cancel"}
         => point(event) = None
    /\ event.variant = "FileDrag" /\ ~(event.kind = "DragLeft" /\ event.position = None)
         => point(event) = Some(event.position[1])
    /\ event.variant = "FileDrag" /\ event.kind = "DragLeft" /\ event.position = None
         => point(event) = None
    /\ event.variant \in NoPositionVariants => point(event) = None

C3_Witness ==
    /\ event.variant = "FileDrag"
    /\ event.kind = "DragLeft"
    /\ event.position # None
    /\ point(event) = event.position

\* C4: after transform(e, T) of an event with point(e) = Some(p), the
\* point of the result is Some(q) for the q that T maps back to p, that is
\* q = T^-1 p: the position is mapped with the inverse of T.
C4_TransformInverseLaw ==
    op.kind = "transform" /\ point(prev) # None
      => /\ point(event) # None
         /\ MulPoint(op.arg, point(event)[1]) = point(prev)[1]

C4_Witness ==
    /\ op.kind = "transform"
    /\ op.arg = <<2, 1, 1, 1, 1, 0>>
    /\ point(prev) = Some(<<10, 10>>)
    /\ point(event) = Some(<<-1, 11>>)

NonPositional(e) ==
    \/ e.variant \in NoPositionVariants
    \/ e.variant = "FileDrag" /\ e.kind = "DragLeft" /\ e.position = None

\* C5: transform and offset return a Key, IME, window, theme or focus
\* event, and a DragLeft without a position, equal to the input in variant
\* and in every payload field; the Point of WindowMoved and the Size of
\* WindowResized are not transformed.
C5_NonPositionalInvariance ==
    IsTransformed /\ NonPositional(prev) => event = prev

C5_Witness ==
    /\ op.kind = "transform"
    /\ op.arg = <<0, 1, -1, 0, 0, 0>>
    /\ prev.variant = "WindowMoved"
    /\ event.data = <<10, 10>>

Unwired ==
    {"Click", "DoubleClick", "SecondaryClick", "DragStart", "DragEnd",
     "DragOver", "DragEnter", "DragLeave", "Drop", "PointerEnter",
     "PinchGesture"}

NotInjective ==
    \E e1 \in Event : \E e2 \in Event :
        /\ <<e1.variant, e1.kind>> # <<e2.variant, e2.kind>>
        /\ listener(e1) # None
        /\ listener(e1) = listener(e2)

\* C6 as stated: every EventListener category, Click, DoubleClick,
\* SecondaryClick, DragStart, DragEnd, DragOver, DragEnter, DragLeave,
\* Drop, PointerEnter and PinchGesture included, is returned by listener
\* for at least one event, and some category is returned for two distinct
\* event variants.
C6_Surjective ==
    /\ \A l \in EventListener :
          \/ listener(event) = Some(l)
          \/ \E e \in Event : listener(e) = Some(l)
    /\ NotInjective

\* C6 amended: listener is not injective (the FileDrag variants all map to
\* DroppedFile) and not surjective: it returns exactly the 22 categories
\* other than Click, DoubleClick, SecondaryClick, DragStart, DragEnd,
\* DragOver, DragEnter, DragLeave, Drop, PointerEnter and PinchGesture, and
\* returns none of those 11 for any event.
C6_RangeIsWiredCategories ==
    /\ listener(event) \notin {Some(l) : l \in Unwired}
    /\ \A e \in Event : listener(e) \notin {Some(l) : l \in Unwired}
    /\ \A l \in EventListener \ Unwired : \E e \in Event : listener(e) = Some(l)
    /\ Cardinality(EventListener \ Unwired) = 22
    /\ NotInjective
    /\ event.variant = "FileDrag" => listener(event) = Some("DroppedFile")

C6_Witness ==
    /\ event.variant = "FileDrag"
    /\ event.kind = "DragMoved"
    /\ orig.kind = "DragMoved"
    /\ listener(event) = Some("DroppedFile")
    /\ listener(Ev("FileDrag", "DragLeft", None, <<>>)) = Some("DroppedFile")

\* C7: offset(e, (dx, dy)) equals transform(e, translation(dx, dy)), and
\* moves the point of a positional event by exactly (-dx, -dy).
C7_OffsetIsTranslation ==
    op.kind = "offset"
      => /\ event = transform(prev, <<1, 0, 0, 1, op.arg[1], op.arg[2]>>)
         /\ point(prev) # None
              => point(event) = Some(<<point(prev)[1][1] - op.arg[1],
                                       point(prev)[1][2] - op.arg[2]>>)
         /\ point(prev) = None => point(event) = None

\* a pointer-down at (10, 10) offset by (5, 0) has position (5, 10)
C7_Witness ==
    /\ op = Op("offset", <<5, 0>>)
    /\ prev.variant = "Pointer"
    /\ prev.kind = "Down"
    /\ point(prev) = Some(<<10, 10>>)
    /\ point(event) = Some(<<5, 10>>)

\* C8: needs_focus is true if and only if the event is a Key event, for
\* either key state.
C8_NeedsFocusIffKey ==
    needs_focus(event) <=> event.variant = "Key"

C8_Witness ==
    /\ event.variant = "Key"
    /\ event.kind = "Up"
    /\ needs_focus(event)

\* C9: EventPropagation has exactly two values; is_processed equals
\* is_stop and is_continue equals the negation of is_stop: Stop gives
\* (is_continue, is_stop, is_processed) = (false, true, true) and Continue
\* gives (true, false, false).
C9_PropagationPredicates ==
    /\ propagation \in {"Stop", "Continue"}
    /\ is_processed(propagation) = is_stop(propagation)
    /\ is_continue(propagation) = ~is_stop(propagation)
    /\ propagation = "Stop"
         => <<is_continue(propagation), is_stop(propagation),
              is_processed(propagation)>> = <<FALSE, TRUE, TRUE>>
    /\ propagation = "Continue"
         => <<is_continue(propagation), is_stop(propagation),
              is_processed(propagation)>> = <<TRUE, FALSE, FALSE>>

C9_Witness ==
    /\ propagation = "Stop"
    /\ is_processed(propagation)
    /\ ~is_continue(propagation)

\* C10: after any sequence of transform/offset calls the event has the
\* variant, sub-variant and payload it was received with, the same
\* listener, needs_focus and allow_disabled, and a point exactly when it
\* had one; only the position coordinates may differ.
C10_ClassificationPreserved ==
    depth >= 1
      => /\ event.variant = orig.variant
         /\ event.kind = orig.kind
         /\ event.data = orig.data
         /\ listener(event) = listener(orig)
         /\ needs_focus(event) = needs_focus(orig)
         /\ allow_disabled(event) = allow_disabled(orig)
         /\ (point(event) = None) = (point(orig) = None)
         /\ (event.position = None) = (orig.position = None)

C10_Witness ==
    /\ depth >= 2
    /\ op.kind = "offset"
    /\ event.variant = "FileDrag"
    /\ event.kind = "DragLeft"
    /\ point(orig) # None
    /\ point(event) # None
    /\ point(event) # point(orig)

====
